---- MODULE Spec2Model ----
(***************************************************************************)
(* A model of rsa_archer/record_search.py: RecordSearcher's single-value   *)
(* lookup (get_record_id_by_field) and bulk lookup                         *)
(* (get_record_ids_by_field_bulk) against an ArcherInstance collaborator   *)
(* and two HTTP backends whose answers are chosen nondeterministically.    *)
(* Spec runs one call of either entry point; SpecRecorded runs the same     *)
(* steps with every answer kept on record, and a bulk call made twice.     *)
(*                                                                         *)
(* Python values are records [k, n, s]: an int n, a str s (a sequence of   *)
(* one-character strings) or None.  Strings that the code only compares    *)
(* for equality are TLA+ strings.                                          *)
(***************************************************************************)
EXTENDS Integers, Sequences, FiniteSets, TLC

\* ------------------------------------------------------------------ bounds

\* The longest list of values a bulk lookup is called with.
MaxValues == 2
\* The most items a backend puts in one response body.
MaxItems == 2

\* --------------------------------------------------------- Python values

IntVal(n) == [k |-> "int", n |-> n, s |-> <<>>]
StrVal(s) == [k |-> "str", n |-> 0, s |-> s]
NoneVal == [k |-> "none", n |-> 0, s |-> <<>>]

Digits == {"0", "1", "2", "3", "4", "5", "6", "7", "8", "9"}

DigitVal(c) ==
    CASE c = "0" -> 0 [] c = "1" -> 1 [] c = "2" -> 2 [] c = "3" -> 3
      [] c = "4" -> 4 [] c = "5" -> 5 [] c = "6" -> 6 [] c = "7" -> 7
      [] c = "8" -> 8 [] OTHER -> 9

RECURSIVE ParseDigits(_)
ParseDigits(s) ==
    IF s = <<>> THEN 0
    ELSE 10 * ParseDigits(SubSeq(s, 1, Len(s) - 1)) + DigitVal(s[Len(s)])

\* int(v): [ok |-> FALSE] stands for the ValueError / TypeError int() raises.
py_int(v) ==
    CASE v.k = "int" -> [ok |-> TRUE, n |-> v.n]
      [] v.k = "str" /\ v.s # <<>> /\ (\A i \in DOMAIN v.s : v.s[i] \in Digits)
            -> [ok |-> TRUE, n |-> ParseDigits(v.s)]
      [] OTHER -> [ok |-> FALSE, n |-> 0]

\* bool(v), as `if rid:` evaluates it.
py_truthy(v) ==
    CASE v.k = "int" -> v.n # 0
      [] v.k = "str" -> v.s # <<>>
      [] OTHER -> FALSE

\* str.lower() on the letters the model's names are written with.
LowerChar(c) ==
    CASE c = "T" -> "t" [] c = "N" -> "n" [] c = "S" -> "s" [] OTHER -> c

py_lower(s) == [i \in DOMAIN s |-> LowerChar(s[i])]

SetMin(S) == CHOOSE x \in S : \A y \in S : x <= y

\* --------------------------------------------------- collaborator's data

\* archer.application_fields_json: a dict, kept as the sequence of its items in
\* insertion order.  A "name" item is DisplayName -> field id, an "info" item is
\* field id -> {"Type": ...}.
NameEntry(name, fid) ==
    [kind |-> "name", name |-> name, key |-> 0, fid |-> fid, type |-> NoneVal]
InfoEntry(id, type) ==
    [kind |-> "info", name |-> <<>>, key |-> id, fid |-> 0, type |-> type]

TextMeta == << NameEntry(<<"T", "n">>, 10), InfoEntry(10, IntVal(1)) >>
ListMeta == << NameEntry(<<"T", "n">>, 20), InfoEntry(20, IntVal(4)) >>
Metas == {TextMeta, ListMeta}

\* The DisplayNames a caller asks for: one that matches the metadata ignoring
\* case, one that matches nothing.
FieldNames == { <<"t", "N">>, <<"z">> }

\* archer.application_level_id as the collaborator may hold it.
ModuleIdRaws == { StrVal(<<"1", "0", "0">>), StrVal(<<"a">>), NoneVal }

\* What get_value_id_by_field_name_and_value may answer.
ValueIdLists == { <<>>, <<8, 7>> }

\* The field values a caller looks up.
Values == {"a", "b"}

RECURSIVE SeqsUpTo(_, _)
SeqsUpTo(S, n) ==
    IF n = 0 THEN { <<>> }
    ELSE LET shorter == SeqsUpTo(S, n - 1)
         IN shorter \cup { Append(q, x) : q \in {r \in shorter : Len(r) = n - 1}, x \in S }

\* The lists of values a bulk lookup is called with.  The code only compares
\* values with each other, so a list that starts with "b" behaves as the list
\* with "a" and "b" exchanged.
ValueLists(n) == { vs \in SeqsUpTo(Values, n) : vs = <<>> \/ vs[1] = "a" }

\* ------------------------------------------------------- HTTP responses

\* A key of a JSON object: the text base followed by tail ("Endpoint" + "_Id").
Key(base, tail) == [base |-> base, tail |-> tail]
NoKey == Key("", "")
IdKey == Key("", "Id")

\* An item of a result array.
\*   "ro":     {"RequestedObject": {"Id": id}}
\*   "key":    {key: id}
\*   "scalar": a JSON value that is not an object
RoItem(v) == [t |-> "ro", key |-> NoKey, id |-> v]
KeyItem(key, v) == [t |-> "key", key |-> key, id |-> v]
ScalarItem == [t |-> "scalar", key |-> NoKey, id |-> NoneVal]

\* A decoded body.
\*   "list":    a top-level array of items
\*   "value":   {"value": [items]}
\*   "top":     {"RequestedObject": {"Id": id}}
\*   "empty":   {} (an object with neither key)
\*   "scalar":  a JSON string or number
\*   "invalid": resp.json() raises
ListBody(items) == [shape |-> "list", items |-> items, id |-> NoneVal]
ValueBody(items) == [shape |-> "value", items |-> items, id |-> NoneVal]
TopBody(v) == [shape |-> "top", items |-> <<>>, id |-> v]
EmptyBody == [shape |-> "empty", items |-> <<>>, id |-> NoneVal]
ScalarBody == [shape |-> "scalar", items |-> <<>>, id |-> NoneVal]
InvalidBody == [shape |-> "invalid", items |-> <<>>, id |-> NoneVal]

\* A response: the request raised (fail), or a status and a body.
Failed == [fail |-> TRUE, status |-> 0, body |-> InvalidBody]
Response(status, body) == [fail |-> FALSE, status |-> status, body |-> body]

\* The items of the primary search's answers: two record ids (one sent as a
\* numeric string), an item that is no object, an identifier that is no number.
RestItems ==
    { RoItem(IntVal(1)), RoItem(StrVal(<<"2">>)), ScalarItem,
      KeyItem(IdKey, StrVal(<<"x">>)) }

RestBodies ==
    { ListBody(q) : q \in SeqsUpTo(RestItems, MaxItems) }
      \cup { ValueBody(q) : q \in SeqsUpTo(RestItems, MaxItems) }
      \cup { TopBody(IntVal(1)), EmptyBody, ScalarBody, InvalidBody }

ErrorStatuses == {400, 503}

RestResponses ==
    { Failed }
      \cup { Response(200, b) : b \in RestBodies }
      \cup { Response(st, ListBody(<< RoItem(IntVal(1)) >>)) : st \in ErrorStatuses }

\* The probe's answers: the statuses with an empty object for a body, and two
\* answers whose body is no JSON or no object.
ProbeResponses ==
    { Failed }
      \cup { Response(st, EmptyBody) : st \in {200, 401, 403, 404, 405, 500} }
      \cup { Response(200, InvalidBody), Response(500, ScalarBody) }

\* The Content API directory: entries {"name": name, "url": url}; url "" stands
\* for a missing or empty url.  Names are sequences of characters.
app_name == <<"A">>
Entry(name, url) == [t |-> "entry", name |-> name, url |-> url]
ScalarEntry == [t |-> "scalar", name |-> <<>>, url |-> ""]

DirEntries ==
    { Entry(<<"A">>, "Endpoint"), Entry(<<"x", "A">>, "Other"),
      Entry(<<"A", "y">>, "Endpoint"), Entry(<<"x">>, "Other"), ScalarEntry }

DirBodies ==
    { ValueBody(q) : q \in SeqsUpTo(DirEntries, MaxItems) }
      \cup { ListBody(<< Entry(<<"A">>, "Endpoint") >>), EmptyBody, InvalidBody }

DirResponses ==
    { Failed }
      \cup { Response(200, b) : b \in DirBodies }
      \cup { Response(st, ValueBody(<< Entry(<<"A">>, "Endpoint") >>)) : st \in ErrorStatuses }

QueryItems ==
    { KeyItem(Key("Endpoint", "_Id"), IntVal(1)), KeyItem(Key("Other", "_ID"), StrVal(<<"2">>)),
      KeyItem(IdKey, StrVal(<<"x">>)), ScalarItem }

QueryBodies ==
    { ValueBody(q) : q \in SeqsUpTo(QueryItems, MaxItems) }
      \cup { ListBody(<< KeyItem(IdKey, IntVal(1)) >>), EmptyBody, InvalidBody }

QueryResponses ==
    { Failed }
      \cup { Response(200, b) : b \in QueryBodies }
      \cup { Response(st, ValueBody(<< KeyItem(IdKey, IntVal(1)) >>)) : st \in ErrorStatuses }

\* ------------------------------------------------- RecordSearcher helpers

\* _resolve_field_id_by_display_name that returns a default when nothing matches.
resolve_field_id_or_default(af, name) ==
    LET target_lower == py_lower(name)
        hits == { i \in DOMAIN af :
                    af[i].kind = "name" /\ py_lower(af[i].name) = target_lower }
    IN IF hits = {} THEN [ok |-> TRUE, val |-> 0]
       ELSE [ok |-> TRUE, val |-> af[SetMin(hits)].fid]

\* _resolve_field_id_by_display_name comparing the names as they are written.
resolve_field_id_case_sensitive(af, name) ==
    LET hits == { i \in DOMAIN af : af[i].kind = "name" /\ af[i].name = name }
    IN IF hits = {} THEN [ok |-> FALSE, val |-> 0]
       ELSE [ok |-> TRUE, val |-> af[SetMin(hits)].fid]

\* _resolve_field_id_by_display_name, after from_application: the value stored
\* under the first str key that equals the name ignoring case; [ok |-> FALSE]
\* is the ValueError raised when no key matches.
resolve_field_id_by_display_name(af, name) ==
    LET target_lower == py_lower(name)
        hits == { i \in DOMAIN af :
                    af[i].kind = "name" /\ py_lower(af[i].name) = target_lower }
    IN IF hits = {} THEN [ok |-> FALSE, val |-> 0]
       ELSE [ok |-> TRUE, val |-> af[SetMin(hits)].fid]

\* _is_values_list: the field's descriptor is a dict whose Type converts to 4.
is_values_list(af, fid) ==
    LET infos == { i \in DOMAIN af : af[i].kind = "info" /\ af[i].key = fid }
    IN IF infos = {} THEN FALSE
       ELSE LET type == af[SetMin(infos)].type
                as_int == py_int(IF type.k = "none" THEN IntVal(-1) ELSE type)
            IN as_int.ok /\ as_int.n = 4

\* A search token: the caller's raw string, a values-list id, or the sentinel
\* "__CLINE_VALUES_LIST_NO_MATCH__".
RawToken(v) == [t |-> "raw", s |-> v, n |-> 0]
IdToken(n) == [t |-> "id", s |-> "", n |-> n]
NoMatchToken == [t |-> "sentinel", s |-> "__CLINE_VALUES_LIST_NO_MATCH__", n |-> 0]
NoToken == [t |-> "", s |-> "", n |-> 0]

\* _get_value_or_value_id taking the last id of the resolution, not the first.
get_value_or_value_id_last(af, fid, field_value, value_ids) ==
    IF is_values_list(af, fid)
    THEN IF value_ids = <<>> THEN NoMatchToken ELSE IdToken(value_ids[Len(value_ids)])
    ELSE RawToken(field_value)

\* _get_value_or_value_id; value_ids is the collaborator's answer, consulted
\* only for a values list.
get_value_or_value_id(af, fid, field_value, value_ids) ==
    IF is_values_list(af, fid)
    THEN IF value_ids = <<>> THEN NoMatchToken ELSE IdToken(value_ids[1])
    ELSE RawToken(field_value)

\* _supports_rest_search that takes only 404 for unsupported.
supports_rest_search_404(resp) ==
    IF resp.fail THEN FALSE
    ELSE IF resp.status = 404 THEN FALSE
    ELSE TRUE

\* _supports_rest_search that takes every error status for unsupported.
supports_rest_search_ok_only(resp) ==
    IF resp.fail THEN FALSE
    ELSE IF resp.status >= 400 THEN FALSE
    ELSE TRUE

\* _supports_rest_search on the probe's response.
supports_rest_search(resp) ==
    IF resp.fail THEN FALSE
    ELSE IF resp.status \in {404, 405} THEN FALSE
    ELSE TRUE

\* A pass over the items that keeps the ids read before and after an item whose
\* reading raised.
RECURSIVE collect_ids_partial(_)
collect_ids_partial(rids) ==
    IF rids = <<>> THEN [ok |-> TRUE, ids |-> <<>>]
    ELSE LET first_rid == rids[1]
             rest == collect_ids_partial(Tail(rids))
         IN IF ~first_rid.ok \/ ~first_rid.keep \/ ~py_int(first_rid.rid).ok THEN rest
            ELSE [ok |-> TRUE, ids |-> << py_int(first_rid.rid).n >> \o rest.ids]

\* One pass over the items of an array, given per item what the loop body
\* computed: [ok, rid, keep], ok FALSE when reading the item raised, keep the
\* test guarding ids.append(int(rid)).  [ok, ids]: ok FALSE when the loop raised.
RECURSIVE collect_ids(_)
collect_ids(rids) ==
    IF rids = <<>> THEN [ok |-> TRUE, ids |-> <<>>]
    ELSE LET first == rids[1]
             rest == collect_ids(Tail(rids))
         IN IF ~first.ok THEN [ok |-> FALSE, ids |-> <<>>]
            ELSE IF ~first.keep THEN rest
            ELSE LET n == py_int(first.rid)
                 IN IF ~n.ok \/ ~rest.ok THEN [ok |-> FALSE, ids |-> <<>>]
                    ELSE [ok |-> TRUE, ids |-> <<n.n>> \o rest.ids]

\* k.lower().endswith("_id") or k.lower() == "id"
LowerTail(tail) ==
    CASE tail = "_Id" -> "_id" [] tail = "_ID" -> "_id" [] tail = "Id" -> "id"
      [] tail = "ID" -> "id" [] OTHER -> tail

key_is_id(key) ==
    LowerTail(key.tail) = "_id" \/ (key.base = "" /\ LowerTail(key.tail) = "id")

\* item.get("RequestedObject", {}).get("Id") of the top-level array branch.
rest_list_rid(item) ==
    CASE item.t = "scalar" -> [ok |-> FALSE, rid |-> NoneVal, keep |-> FALSE]
      [] item.t = "ro" -> [ok |-> TRUE, rid |-> item.id, keep |-> py_truthy(item.id)]
      [] OTHER -> [ok |-> TRUE, rid |-> NoneVal, keep |-> FALSE]

\* The rid of an item of data["value"].
rest_value_rid(item) ==
    LET rid == CASE item.t = "ro" -> item.id
                 [] item.t = "key" /\ key_is_id(item.key) -> item.id
                 [] OTHER -> NoneVal
    IN [ok |-> TRUE, rid |-> rid, keep |-> py_truthy(rid)]

\* _rest_search_record_ids on the search's response: the ids, [] for a failed
\* request, a status >= 400 or anything raised while parsing.
rest_search_record_ids(resp) ==
    IF resp.fail THEN <<>>
    ELSE IF resp.status >= 400 THEN <<>>
    ELSE LET data == resp.body
             parsed ==
               CASE data.shape = "invalid" -> [ok |-> FALSE, ids |-> <<>>]
                 [] data.shape = "list" -> collect_ids([i \in DOMAIN data.items |-> rest_list_rid(data.items[i])])
                 [] data.shape = "value" -> collect_ids([i \in DOMAIN data.items |-> rest_value_rid(data.items[i])])
                 [] data.shape = "top" ->
                      collect_ids(<< rest_list_rid(RoItem(data.id)) >>)
                 [] OTHER -> [ok |-> TRUE, ids |-> <<>>]
         IN IF parsed.ok THEN parsed.ids ELSE <<>>

\* app_name in name
is_substring(a, b) ==
    \E i \in 0..(Len(b) - Len(a)) : SubSeq(b, i + 1, i + Len(a)) = a

\* The loop of _get_grc_endpoint_url returning the first entry that matches at
\* all, exactly or as a substring.
RECURSIVE scan_endpoints_first_match(_, _, _)
scan_endpoints_first_match(entries, app, candidates) ==
    IF entries = <<>> THEN [ok |-> TRUE, url |-> ""]
    ELSE LET ep == entries[1]
         IN IF ep.t = "scalar" THEN [ok |-> FALSE, url |-> ""]
            ELSE IF is_substring(app, ep.name) THEN [ok |-> TRUE, url |-> ep.url]
            ELSE scan_endpoints_first_match(Tail(entries), app, candidates)

\* The loop of _get_grc_endpoint_url over data["value"]: [ok, found, url];
\* candidates are the urls of the substring matches seen so far.
RECURSIVE scan_endpoints(_, _, _)
scan_endpoints(entries, app, candidates) ==
    IF entries = <<>>
    THEN IF candidates # <<>> THEN [ok |-> TRUE, url |-> candidates[1]]
         ELSE [ok |-> TRUE, url |-> ""]
    ELSE LET ep == entries[1]
         IN IF ep.t = "scalar" THEN [ok |-> FALSE, url |-> ""]
            ELSE IF ep.name = app THEN [ok |-> TRUE, url |-> ep.url]
            ELSE scan_endpoints(Tail(entries), app,
                                IF is_substring(app, ep.name)
                                THEN Append(candidates, ep.url) ELSE candidates)

\* _get_grc_endpoint_url on the directory's response: the url, "" for None.
get_grc_endpoint_url(resp, app) ==
    IF resp.fail THEN ""
    ELSE LET data == resp.body
             found ==
               CASE data.shape = "value" -> scan_endpoints(data.items, app, <<>>)
                 [] data.shape = "empty" -> scan_endpoints(<<>>, app, <<>>)
                 [] OTHER -> [ok |-> FALSE, url |-> ""]
         IN IF found.ok THEN found.url ELSE ""

\* The rid of an item of the Content API's data["value"]: the select field
\* <endpoint>_Id, else a key that is "id" or ends in "_id".
contentapi_rid(endpoint_url, item) ==
    LET rid == IF item.t = "key"
                  /\ (item.key = Key(endpoint_url, "_Id") \/ key_is_id(item.key))
               THEN item.id ELSE NoneVal
    IN [ok |-> TRUE, rid |-> rid, keep |-> rid.k # "none"]

\* _contentapi_search_record_ids on the query's response.
contentapi_search_record_ids(resp, endpoint_url) ==
    IF resp.fail THEN <<>>
    ELSE IF resp.status >= 400 THEN <<>>
    ELSE LET data == resp.body
             parsed ==
               CASE data.shape = "value" -> collect_ids([i \in DOMAIN data.items |->
                                     contentapi_rid(endpoint_url, data.items[i])])
                 [] data.shape \in {"empty", "top"} -> [ok |-> TRUE, ids |-> <<>>]
                 [] OTHER -> [ok |-> FALSE, ids |-> <<>>]
         IN IF parsed.ok THEN parsed.ids ELSE <<>>

\* The outcome of one call: a return value or a raised exception.
Absent == [kind |-> "none", id |-> 0, details |-> <<>>, err |-> ""]
Found(n) == [kind |-> "id", id |-> n, details |-> <<>>, err |-> ""]
Ambiguous(ids) == [kind |-> "amb", id |-> 0, details |-> ids, err |-> ""]
Raised(e) == [kind |-> "err", id |-> 0, details |-> <<>>, err |-> e]

\* classify with the ambiguity test dropped: the first of several ids is returned.
classify_first(ids) ==
    IF ids = <<>> THEN Absent ELSE Found(ids[1])

\* The tail of get_record_id_by_field: None, the id, or AmbiguousMatch(details=ids).
classify(ids) ==
    IF ids = <<>> THEN Absent
    ELSE IF Len(ids) = 1 THEN Found(ids[1])
    ELSE Ambiguous(ids)

\* ------------------------------------------------------------------ state

VARIABLES
    af,                     \* archer.application_fields_json
    application_level_id,   \* archer.application_level_id
    api,                    \* the entry point running: "", "one" or "bulk"
    field_display_name,     \* the call's field_display_name
    values,                 \* the call's values (one value for a single lookup)
    idx,                    \* the position in values of the lookup that is running
    pc,                     \* where get_record_id_by_field / the bulk loop stands
    field_id, module_id, search_token, endpoint, ids,   \* get_record_id_by_field's locals
    last,                   \* what get_record_id_by_field returned or raised
    calls,                  \* the collaborator and network calls of the running lookup
    results, ambiguities,   \* get_record_ids_by_field_bulk's locals
    outcomes,               \* per processed value, what its lookup returned or raised
    ret,                    \* what the entry point returned or raised to its caller
    run,                    \* 1 in a call, 2 when the same call is made again
    script,                 \* the answers the collaborator and the backends gave (run 1),
                            \* those they have still to give again (run 2)
    first,                  \* what the call of run 1 returned or raised
    loads                   \* how many times the call asked from_application so far

vars ==
    << af, application_level_id, api, field_display_name, values, idx, pc,
       field_id, module_id, search_token, endpoint, ids, last, calls,
       results, ambiguities, outcomes, ret, run, script, first, loads >>

\* A call the lookup made: op is "load", "values_list", "probe", "rest", "dir"
\* or "query"; tok the value submitted by a search; bad a failed request or a
\* status >= 400 (for "load", a from_application that raised); status the probe's status (0 when the request raised, and for
\* the other calls); ans the ids the values-list collaborator answered.
Call(op, tok, resp, ans) ==
    [op |-> op, tok |-> tok, bad |-> (resp.fail \/ resp.status >= 400),
     status |-> IF op = "probe" THEN resp.status ELSE 0, ans |-> ans]
Answered == Response(200, EmptyBody)

\* A dict with str keys, and d[k] = v.
EmptyDict == << >>
Put(d, k, v) == [x \in (DOMAIN d) \cup {k} |-> IF x = k THEN v ELSE d[x]]

\* Optional[int]
None == [some |-> FALSE, id |-> 0]
Some(n) == [some |-> TRUE, id |-> n]

Pending == [kind |-> "pending", id |-> 0, details |-> <<>>, err |-> ""]
Returned(kind, one, map, amap) == [kind |-> kind, one |-> one, map |-> map, amap |-> amap]
NoRet == Returned("pending", Pending, EmptyDict, EmptyDict)

LocalsCleared ==
    /\ field_id' = 0
    /\ module_id' = 0
    /\ search_token' = NoToken
    /\ endpoint' = ""
    /\ ids' = <<>>
    /\ calls' = <<>>

Init ==
    /\ af \in Metas
    /\ application_level_id \in ModuleIdRaws
    /\ api = ""
    /\ field_display_name = <<>>
    /\ values = <<>>
    /\ idx = 0
    /\ pc = "idle"
    /\ field_id = 0
    /\ module_id = 0
    /\ search_token = NoToken
    /\ endpoint = ""
    /\ ids = <<>>
    /\ last = Pending
    /\ calls = <<>>
    /\ results = EmptyDict
    /\ ambiguities = EmptyDict
    /\ outcomes = <<>>
    /\ ret = NoRet
    /\ run = 1
    /\ script = <<>>
    /\ first = NoRet
    /\ loads = 0

field_value == values[idx]

\* ------------------------------------------------ get_record_id_by_field

\* The answers are neither recorded nor given again.
Unrecorded == UNCHANGED << run, script, first >>

\* A caller calls get_record_id_by_field(app_name, name, v).
CallOne ==
    /\ pc = "idle"
    /\ \E name \in FieldNames, v \in Values :
          /\ field_display_name' = name
          /\ values' = << v >>
    /\ api' = "one"
    /\ idx' = 1
    /\ pc' = "resolve"
    /\ UNCHANGED << loads, af, application_level_id, field_id, module_id, search_token,
                    endpoint, ids, last, calls, results, ambiguities, outcomes, ret >>
    /\ Unrecorded

\* str(module_id_raw), for the raw ids int() refused.
py_str(v) == IF v.k = "none" THEN StrVal(<< "N", "o", "n", "e" >>) ELSE v

\* A module id conversion that falls back to 0 where the code raises.
module_id_or_zero(raw) ==
    LET direct == py_int(raw)
    IN IF direct.ok THEN direct ELSE [ok |-> TRUE, n |-> 0]

\* int(module_id_raw), then int(str(module_id_raw)); ok FALSE is the RuntimeError.
module_id_of(raw) ==
    LET direct == py_int(raw)
    IN IF direct.ok THEN direct ELSE py_int(py_str(raw))

\* _resolve_field_id_by_display_name that goes on to the metadata it has when
\* from_application raised.
resolve_ignoring_load(loaded, fields, name) ==
    LET field == resolve_field_id_by_display_name(fields, name)
    IN [ok |-> field.ok, val |-> field.val,
        err |-> IF field.ok THEN "" ELSE "ValueError"]

\* The whole of _resolve_field_id_by_display_name: from_application first, whose
\* exception (loaded FALSE) leaves the method as it is, then the resolution.
resolve_with_load(loaded, fields, name) ==
    IF ~loaded THEN [ok |-> FALSE, val |-> 0, err |-> "LoadError"]
    ELSE LET field == resolve_field_id_by_display_name(fields, name)
         IN [ok |-> field.ok, val |-> field.val,
             err |-> IF field.ok THEN "" ELSE "ValueError"]

\* Lines 246-256: from_application (which may raise), the field's id, the
\* module id.
ResolveWith(loaded) ==
    /\ pc = "resolve"
    /\ calls' = << Call("load", NoToken, IF loaded THEN Answered ELSE Failed, <<>>) >>
    /\ loads' = loads + 1
    /\ LET field == resolve_with_load(loaded, af, field_display_name)
           module == module_id_of(application_level_id)
       IN IF ~field.ok
          THEN /\ last' = Raised(field.err) /\ pc' = "ret"
               /\ UNCHANGED << field_id, module_id >>
          ELSE IF ~module.ok
          THEN /\ last' = Raised("RuntimeError") /\ pc' = "ret"
               /\ field_id' = field.val
               /\ UNCHANGED module_id
          ELSE /\ field_id' = field.val
               /\ module_id' = module.n
               /\ pc' = "token"
               /\ UNCHANGED last
    /\ UNCHANGED << af, application_level_id, api, field_display_name, values, idx,
                    search_token, endpoint, ids, results, ambiguities, outcomes, ret >>

Resolve ==
    /\ \E loaded \in BOOLEAN : ResolveWith(loaded)
    /\ Unrecorded

\* Line 259: the search token; value_ids is what the values-list collaborator
\* answers, and it is asked only for a values list.
TokenWith(value_ids) ==
    /\ pc = "token"
    /\ search_token' = get_value_or_value_id(af, field_id, field_value, value_ids)
    /\ calls' = IF is_values_list(af, field_id)
                THEN Append(calls, Call("values_list", NoToken, Answered, value_ids))
                ELSE calls
    /\ pc' = "probe"
    /\ UNCHANGED << loads, af, application_level_id, api, field_display_name, values, idx,
                    field_id, module_id, endpoint, ids, last, results, ambiguities,
                    outcomes, ret >>

Token ==
    /\ IF pc = "token" /\ is_values_list(af, field_id)
       THEN \E value_ids \in ValueIdLists : TokenWith(value_ids)
       ELSE TokenWith(<<>>)
    /\ Unrecorded

\* Line 262: the capability probe decides the strategy.
ProbeWith(resp) ==
    /\ pc = "probe"
    /\ calls' = Append(calls, Call("probe", NoToken, resp, <<>>))
    /\ pc' = IF supports_rest_search(resp) THEN "rest" ELSE "dir"
    /\ UNCHANGED << loads, af, application_level_id, api, field_display_name, values, idx,
                    field_id, module_id, search_token, endpoint, ids, last, results,
                    ambiguities, outcomes, ret >>

Probe ==
    /\ \E resp \in ProbeResponses : ProbeWith(resp)
    /\ Unrecorded

\* A lookup that turns to the fallback when the primary search found nothing.
after_rest_search_fallback(found) == IF found = <<>> THEN "dir" ELSE "ret"

\* Lines 262-272: the primary search is one branch of the if, the fallback the
\* other; after the search the lookup classifies whatever ids it has.
after_rest_search(found) == "ret"

\* Lines 263 and 272-279: the primary structured search, on the search token,
\* and the classification of its ids.
RestSearchWith(resp) ==
    /\ pc = "rest"
    /\ ids' = rest_search_record_ids(resp)
    /\ calls' = Append(calls, Call("rest", search_token, resp, <<>>))
    /\ last' = classify(ids')
    /\ pc' = after_rest_search(ids')
    /\ UNCHANGED << loads, af, application_level_id, api, field_display_name, values, idx,
                    field_id, module_id, search_token, endpoint, results,
                    ambiguities, outcomes, ret >>

RestSearch ==
    /\ \E resp \in RestResponses : RestSearchWith(resp)
    /\ Unrecorded

\* A lookup that queries whatever discovery returned.
after_discovery_always_query(url) == "query"

\* Lines 267-270: `if not endpoint: return None`, else the filtered query.
after_discovery(url) == IF url = "" THEN "ret" ELSE "query"

\* Lines 266-269: endpoint discovery; no endpoint ends the lookup with None.
DiscoverWith(resp) ==
    /\ pc = "dir"
    /\ endpoint' = get_grc_endpoint_url(resp, app_name)
    /\ calls' = Append(calls, Call("dir", NoToken, resp, <<>>))
    /\ pc' = after_discovery(endpoint')
    /\ last' = IF pc' = "ret" THEN Absent ELSE last
    /\ UNCHANGED << loads, af, application_level_id, api, field_display_name, values, idx,
                    field_id, module_id, search_token, ids, results, ambiguities,
                    outcomes, ret >>

Discover ==
    /\ \E resp \in DirResponses : DiscoverWith(resp)
    /\ Unrecorded

\* Lines 270 and 272-279: the filtered query, on the caller's field_value, and
\* the classification of its ids.
QueryWith(resp) ==
    /\ pc = "query"
    /\ ids' = contentapi_search_record_ids(resp, endpoint)
    /\ calls' = Append(calls, Call("query", RawToken(field_value), resp, <<>>))
    /\ last' = classify(ids')
    /\ pc' = "ret"
    /\ UNCHANGED << loads, af, application_level_id, api, field_display_name, values, idx,
                    field_id, module_id, search_token, endpoint, results,
                    ambiguities, outcomes, ret >>

Query ==
    /\ \E resp \in QueryResponses : QueryWith(resp)
    /\ Unrecorded

\* get_record_id_by_field hands its result or its exception to its caller.
ReturnOne ==
    /\ pc = "ret"
    /\ api = "one"
    /\ ret' = Returned(last.kind, last, EmptyDict, EmptyDict)
    /\ pc' = "done"
    /\ UNCHANGED << loads, af, application_level_id, api, field_display_name, values, idx,
                    field_id, module_id, search_token, endpoint, ids, last, calls,
                    results, ambiguities, outcomes >>
    /\ Unrecorded

\* ------------------------------------------ get_record_ids_by_field_bulk

\* Locals that a call would find as the call before it left them.
bulk_locals_kept(prev) == prev

\* Lines 285-286: results and ambiguities are new empty dicts in every call,
\* whatever a call before left in its own.
bulk_locals(prev) == EmptyDict

\* A caller calls get_record_ids_by_field_bulk(app_name, name, vs).
CallBulk ==
    /\ pc = "idle"
    /\ \E name \in FieldNames, vs \in ValueLists(MaxValues) :
          /\ field_display_name' = name
          /\ values' = vs
          /\ pc' = IF vs = <<>> THEN "end" ELSE "resolve"
    /\ api' = "bulk"
    /\ idx' = 1
    /\ results' = bulk_locals(results)
    /\ ambiguities' = bulk_locals(ambiguities)
    /\ UNCHANGED << loads, af, application_level_id, field_id, module_id, search_token,
                    endpoint, ids, last, calls, outcomes, ret >>
    /\ Unrecorded

\* Lines 294-302: a.details, a list of ints, each passed through int().
coerce_details(details) ==
    [i \in DOMAIN details |-> py_int(IntVal(details[i])).n]

\* Lines 291, 323, 327: what the loop body stores in results[v].
result_entry(outcome) ==
    IF outcome.kind = "id" THEN Some(outcome.id) ELSE None

\* The loop body without the store of line 327: a lookup that raised leaves no key.
results_after_skip(res, v, outcome) ==
    IF outcome.kind = "err" THEN res ELSE Put(res, v, result_entry(outcome))

\* Lines 291, 323, 327: results after the loop body; every outcome stores a
\* value under v.
results_after(res, v, outcome) == Put(res, v, result_entry(outcome))

\* The ambiguity map keeping only the first id of an ambiguous lookup.
ambiguities_after_first(amb, v, outcome) ==
    IF outcome.kind = "amb" THEN Put(amb, v, << outcome.details[1] >>) ELSE amb

\* Lines 292-322: the ambiguity map after the loop body.
ambiguities_after(amb, v, outcome) ==
    IF outcome.kind = "amb" THEN Put(amb, v, coerce_details(outcome.details)) ELSE amb

\* A loop that gives up at the first ambiguous value.
loop_stops_on_ambiguity(i, vs, outcome) == i < Len(vs) /\ outcome.kind # "amb"

\* Line 288: whether the loop goes on to another value after position i.
loop_continues(i, vs, outcome) == i < Len(vs)

\* Lines 288-327: the loop body once the lookup of values[idx] came back.
BulkRecord ==
    /\ pc = "ret"
    /\ api = "bulk"
    /\ results' = results_after(results, field_value, last)
    /\ ambiguities' = ambiguities_after(ambiguities, field_value, last)
    /\ outcomes' = Append(outcomes, last)
    /\ IF loop_continues(idx, values, last)
       THEN /\ idx' = idx + 1 /\ pc' = "resolve"
       ELSE /\ pc' = "end" /\ UNCHANGED idx
    /\ last' = Pending
    /\ LocalsCleared
    /\ UNCHANGED << loads, af, application_level_id, api, field_display_name, values, ret >>
    /\ Unrecorded

\* A raise that hands the result mapping over with the ambiguity map.
bulk_return_with_results(res, amb) ==
    IF DOMAIN amb # {}
    THEN Returned("amb", Pending, res, amb)
    ELSE Returned("map", Pending, res, EmptyDict)

\* Lines 329-332: what the bulk lookup hands its caller.
bulk_return(res, amb) ==
    IF DOMAIN amb # {}
    THEN Returned("amb", Pending, EmptyDict, amb)
    ELSE Returned("map", Pending, res, EmptyDict)

BulkFinish ==
    /\ pc = "end"
    /\ ret' = bulk_return(results, ambiguities)
    /\ pc' = "done"
    /\ UNCHANGED << loads, af, application_level_id, api, field_display_name, values, idx,
                    field_id, module_id, search_token, endpoint, ids, last, calls,
                    results, ambiguities, outcomes >>
    /\ Unrecorded

Next ==
    \/ CallOne
    \/ Resolve
    \/ Token
    \/ Probe
    \/ RestSearch
    \/ Discover
    \/ Query
    \/ ReturnOne
    \/ CallBulk
    \/ BulkRecord
    \/ BulkFinish

Spec == Init /\ [][Next]_vars

\* ------------------------------------- the answers on record, and a rerun

\* The same lookups with every answer of the collaborator and of the backends
\* kept in script, and a bulk call made a second time with the same arguments
\* against a collaborator and backends that give the recorded answers again.

\* The backends' answers to the lookups of a bulk call: a few of each call's
\* answers, so that two whole runs over MaxValues values stay within reach.
ProbeFew == { Response(200, EmptyBody), Response(404, EmptyBody) }
RestFew ==
    { Response(200, ListBody(<< RoItem(IntVal(1)) >>)),
      Response(200, ListBody(<< RoItem(StrVal(<<"2">>)), RoItem(IntVal(1)) >>)),
      Failed }
DirFew == { Response(200, ValueBody(<< Entry(<<"A">>, "Endpoint") >>)), Failed }
QueryFew ==
    { Response(200, ValueBody(<< KeyItem(Key("Endpoint", "_Id"), IntVal(1)) >>)),
      Response(200, ValueBody(<< KeyItem(Key("Endpoint", "_Id"), IntVal(1)),
                                 KeyItem(Key("Other", "_ID"), StrVal(<<"2">>)) >>)),
      Response(200, EmptyBody) }

\* The answers a call may get: in run 2 the one recorded in run 1.
Replies(all, few) ==
    IF run = 2 THEN { Head(script) }
    ELSE IF api = "one" THEN all ELSE few

\* Run 1 records the answer x, run 2 has used it.
Recorded(x) ==
    /\ script' = IF run = 1 THEN Append(script, x) ELSE Tail(script)
    /\ UNCHANGED << run, first >>

ResolveRecorded ==
    /\ pc = "resolve"
    /\ \E loaded \in Replies(BOOLEAN, BOOLEAN) : ResolveWith(loaded) /\ Recorded(loaded)

TokenRecorded ==
    /\ pc = "token"
    /\ IF is_values_list(af, field_id)
       THEN \E value_ids \in Replies(ValueIdLists, ValueIdLists) :
               TokenWith(value_ids) /\ Recorded(value_ids)
       ELSE TokenWith(<<>>) /\ Unrecorded

ProbeRecorded ==
    /\ pc = "probe"
    /\ \E resp \in Replies(ProbeResponses, ProbeFew) : ProbeWith(resp) /\ Recorded(resp)

RestSearchRecorded ==
    /\ pc = "rest"
    /\ \E resp \in Replies(RestResponses, RestFew) : RestSearchWith(resp) /\ Recorded(resp)

DiscoverRecorded ==
    /\ pc = "dir"
    /\ \E resp \in Replies(DirResponses, DirFew) : DiscoverWith(resp) /\ Recorded(resp)

QueryRecorded ==
    /\ pc = "query"
    /\ \E resp \in Replies(QueryResponses, QueryFew) : QueryWith(resp) /\ Recorded(resp)

\* The caller makes the bulk call again: same searcher, same arguments.
CallAgain ==
    /\ pc = "done"
    /\ api = "bulk"
    /\ run = 1
    /\ run' = 2
    /\ loads' = 0
    /\ first' = ret
    /\ ret' = NoRet
    /\ results' = bulk_locals(results)
    /\ ambiguities' = bulk_locals(ambiguities)
    /\ outcomes' = <<>>
    /\ idx' = 1
    /\ last' = Pending
    /\ pc' = IF values = <<>> THEN "end" ELSE "resolve"
    /\ LocalsCleared
    /\ UNCHANGED << af, application_level_id, api, field_display_name, values, script >>

NextRecorded ==
    \/ CallOne
    \/ ResolveRecorded
    \/ TokenRecorded
    \/ ProbeRecorded
    \/ RestSearchRecorded
    \/ DiscoverRecorded
    \/ QueryRecorded
    \/ ReturnOne
    \/ CallBulk
    \/ BulkRecord
    \/ BulkFinish
    \/ CallAgain

SpecRecorded == Init /\ [][NextRecorded]_vars

\* ------------------------------------------------------------ properties

\* A single-value lookup has just ended: get_record_id_by_field returned or
\* raised, and its locals and calls are still those of that lookup.
Finished == pc = "ret" \/ (api = "one" /\ pc = "done")

\* What that lookup returned or raised, as its caller receives it.
Outcome == IF pc = "done" THEN ret.one ELSE last

Ops == [i \in DOMAIN calls |-> calls[i].op]
HasOp(op) == \E i \in DOMAIN calls : calls[i].op = op
Searched == HasOp("rest") \/ HasOp("query")

\* C1: when a search strategy returned ids, the lookup's outcome is decided by
\* their number alone: none gives absent (nothing raised), one gives that id,
\* two or more raise AmbiguousMatch whose details are all the ids in the
\* strategy's order.
C1_OutcomeByCount ==
    (Finished /\ Searched) =>
        /\ (Len(ids) = 0 => Outcome = Absent)
        /\ (Len(ids) = 1 => Outcome = Found(ids[1]))
        /\ (Len(ids) >= 2 => Outcome = Ambiguous(ids))
        /\ Outcome.kind \in {"none", "id", "amb"}

\* C1 witness: the primary search answered two ids, 2 before 1, and the lookup
\* raised AmbiguousMatch with details [2, 1].
C1_Witness ==
    /\ Finished /\ HasOp("rest")
    /\ ids = << 2, 1 >>
    /\ Outcome.kind = "amb" /\ Outcome.details = << 2, 1 >>

ProbeStatus(sts) ==
    \E i \in DOMAIN calls : calls[i].op = "probe" /\ calls[i].status \in sts

\* The ops of the last n calls.
LastOps(n) == IF Len(Ops) < n THEN << >> ELSE SubSeq(Ops, Len(Ops) - n + 1, Len(Ops))

\* C2: after a probe answered 404 or 405 the lookup makes no primary search
\* call; it asks the directory, then (an endpoint found) runs the filtered
\* query, and what it returns or raises is absent, the id or AmbiguousMatch
\* according to the ids of that query (absent when no endpoint was found).
C2_FallbackOnUnsupported ==
    ProbeStatus({404, 405}) =>
        /\ ~HasOp("rest")
        /\ pc # "rest"
        /\ Finished =>
              IF endpoint = ""
              THEN LastOps(2) = << "probe", "dir" >> /\ Outcome = Absent
              ELSE /\ LastOps(3) = << "probe", "dir", "query" >>
                   /\ Outcome = CASE ids = <<>> -> Absent
                                  [] Len(ids) = 1 -> Found(ids[1])
                                  [] OTHER -> Ambiguous(ids)

\* C2 witness: the probe answered 404, the directory and the query were asked,
\* and the lookup returned the one id the query found.
C2_Witness ==
    /\ Finished /\ ProbeStatus({404})
    /\ LastOps(3) = << "probe", "dir", "query" >>
    /\ Outcome = Found(1)

\* The values-list collaborator's answer in the running lookup.
ValueIdsAnswered ==
    calls[CHOOSE i \in DOMAIN calls : calls[i].op = "values_list"].ans

\* C3 as stated, read on the lookups that ended after a search: for a
\* values-list field every search, primary or fallback, is given the first id of
\* the values-list resolution and not the caller's raw string, and when the
\* resolution has no ids a lookup that went through the fallback ends absent;
\* for another field every search is given the raw value.
C3_TokenEverySearch ==
    (Finished /\ Searched) =>
        IF af = ListMeta
        THEN /\ \A i \in DOMAIN calls :
                  calls[i].op \in {"rest", "query"} =>
                     /\ calls[i].tok # RawToken(field_value)
                     /\ ValueIdsAnswered # <<>> => calls[i].tok = IdToken(ValueIdsAnswered[1])
             /\ (HasOp("query") /\ ValueIdsAnswered = <<>>) => Outcome = Absent
        ELSE \A i \in DOMAIN calls :
                  calls[i].op \in {"rest", "query"} => calls[i].tok = RawToken(field_value)

\* C3 amended: for a values-list field the primary search is given the first id
\* of the values-list resolution, or the no-match sentinel when the resolution
\* has no ids, and never the raw string; the fallback query is given the caller's
\* raw value whatever the field's type; for another field the collaborator is
\* not asked and every search is given the raw value.
C3_TokenPrimaryOnly ==
    /\ \A i \in DOMAIN calls :
          /\ calls[i].op = "rest" =>
                calls[i].tok =
                   IF af = ListMeta
                   THEN IF ValueIdsAnswered = <<>> THEN NoMatchToken
                        ELSE IdToken(ValueIdsAnswered[1])
                   ELSE RawToken(field_value)
          /\ calls[i].op = "query" => calls[i].tok = RawToken(field_value)
    /\ (HasOp("probe") /\ af = ListMeta) => HasOp("values_list")
    /\ af # ListMeta => ~HasOp("values_list")

\* C3 witness: the field is a values list, the resolution answered [8, 7], and
\* the primary search was given 8.
C3_Witness ==
    /\ Finished /\ af = ListMeta /\ HasOp("values_list")
    /\ ValueIdsAnswered = << 8, 7 >>
    /\ \E i \in DOMAIN calls : calls[i].op = "rest" /\ calls[i].tok = IdToken(8)

\* ---- the bulk lookup

BulkDone == api = "bulk" /\ pc = "done"

\* The positions of values whose lookup has come back, and those among them
\* whose lookup raised AmbiguousMatch.
Processed == 1..Len(outcomes)
AmbiguousAt == { i \in Processed : outcomes[i].kind = "amb" }

\* The last processed position that holds v.
LastAt(v) == CHOOSE i \in Processed :
                 values[i] = v /\ \A j \in Processed : values[j] = v => j <= i

DistinctValues == \A i, j \in DOMAIN values : values[i] = values[j] => i = j

\* C4 as stated: when exactly one of N distinct values is ambiguous and the
\* others resolved, the raised aggregate condition carries the id or the absence
\* of every input value, so the caller that catches it reads the resolved ids of
\* the other N-1 values.
C4_RaisedCarriesResults ==
    (/\ BulkDone /\ ret.kind = "amb" /\ DistinctValues
     /\ Len(values) >= 2
     /\ Cardinality(AmbiguousAt) = 1
     /\ \A i \in DOMAIN values \ AmbiguousAt : outcomes[i].kind = "id") =>
        \A i \in DOMAIN values :
            /\ values[i] \in DOMAIN ret.map
            /\ ret.map[values[i]] = result_entry(outcomes[i])

\* C4 amended: when exactly one of N distinct values is ambiguous, the bulk
\* lookup raises the aggregate condition whose details hold that one value and
\* its ids and nothing about the other N-1 values: their ids were resolved and
\* stored in the loop's result mapping, which the raise discards.
C4_RaisedCarriesAmbiguousOnly ==
    (BulkDone /\ DistinctValues /\ Cardinality(AmbiguousAt) = 1) =>
        /\ ret.kind = "amb"
        /\ DOMAIN ret.amap = { values[i] : i \in AmbiguousAt }
        /\ ret.map = EmptyDict
        /\ \A i \in DOMAIN values :
              outcomes[i].kind = "id" => results[values[i]] = Some(outcomes[i].id)

\* C4 witness: of two distinct values the first resolved to an id and the second
\* was ambiguous, and the call raised.
C4_Witness ==
    /\ BulkDone /\ ret.kind = "amb" /\ DistinctValues
    /\ Len(values) = 2
    /\ outcomes[1].kind = "id" /\ outcomes[2].kind = "amb"
    /\ results[values[1]] = Some(outcomes[1].id)

\* C5: while the loop runs, the keys of the id mapping are exactly the values
\* processed so far; each key holds the id its (last) lookup returned, and None
\* when that lookup found nothing, raised AmbiguousMatch or raised anything
\* else; a normal return hands over that mapping, keyed by exactly the input
\* values.
C5_ResultKeys ==
    api = "bulk" =>
        /\ DOMAIN results = { values[i] : i \in Processed }
        /\ \A v \in DOMAIN results :
              results[v] = IF outcomes[LastAt(v)].kind = "id"
                           THEN Some(outcomes[LastAt(v)].id) ELSE None
        /\ (pc = "done" /\ ret.kind = "map") =>
              /\ DOMAIN ret.map = { values[i] : i \in DOMAIN values }
              /\ ret.map = results

\* C5 witness: a bulk lookup of two distinct values returned normally; the
\* first lookup raised an error and maps to None, the second maps to its id.
C5_Witness ==
    /\ BulkDone /\ ret.kind = "map" /\ DistinctValues
    /\ Len(values) = 2
    /\ outcomes[1].kind = "err" /\ outcomes[2].kind = "id"
    /\ ret.map[values[1]] = None /\ ret.map[values[2]] = Some(outcomes[2].id)

\* C6: the bulk lookup raises the aggregate AmbiguousMatch exactly when some
\* value's lookup was ambiguous; its details are keyed by exactly the ambiguous
\* values, each with all the ids of that value's (last) ambiguous lookup; with
\* no ambiguous value it returns the mapping and raises nothing.
C6_AggregateIffAmbiguous ==
    BulkDone =>
        IF AmbiguousAt # {}
        THEN /\ ret.kind = "amb"
             /\ DOMAIN ret.amap = { values[i] : i \in AmbiguousAt }
             /\ \A v \in DOMAIN ret.amap :
                   LET at == CHOOSE i \in AmbiguousAt :
                                values[i] = v
                                /\ \A j \in AmbiguousAt : values[j] = v => j <= i
                   IN ret.amap[v] = outcomes[at].details
        ELSE ret.kind = "map" /\ ret.amap = EmptyDict

\* C6 witness: two distinct values, both ambiguous, the first with ids [2, 1];
\* the details hold both.
C6_Witness ==
    /\ BulkDone /\ ret.kind = "amb" /\ DistinctValues
    /\ Len(values) = 2
    /\ DOMAIN ret.amap = { values[1], values[2] }
    /\ ret.amap[values[1]] = << 2, 1 >>
    /\ Len(ret.amap[values[2]]) = 2

\* C7: the bulk loop looks up the values one at a time in input order (the
\* lookup that runs is that of the first value not yet processed), goes on after
\* an ambiguous, absent or failed lookup, and ends (returning, or raising the
\* aggregate ambiguity) only when every value has been processed.
C7_EveryValueInOrder ==
    api = "bulk" =>
        /\ Len(outcomes) <= Len(values)
        /\ pc \in {"resolve", "token", "probe", "rest", "dir", "query", "ret"} =>
              /\ idx = Len(outcomes) + 1
              /\ idx <= Len(values)
              /\ \A i \in DOMAIN calls :
                    calls[i].op = "query" => calls[i].tok = RawToken(values[Len(outcomes) + 1])
        /\ pc \in {"end", "done"} => Len(outcomes) = Len(values)
        /\ ret # NoRet => (pc = "done" /\ Len(outcomes) = Len(values))

\* C7 witness: the first of two values was ambiguous and the second was still
\* looked up, through the fallback query, before the call raised.
C7_Witness ==
    /\ api = "bulk" /\ pc = "ret" /\ Len(values) = 2 /\ idx = 2
    /\ outcomes = << Ambiguous(<< 1, 2 >>) >>
    /\ HasOp("query") /\ last.kind = "none"

\* ---- configuration and transport errors

\* The call's display name equals no DisplayName of the metadata ignoring case.
FieldMissing ==
    \A i \in DOMAIN af :
        af[i].kind = "name" => py_lower(af[i].name) # py_lower(field_display_name)

\* The application's module id is missing or is no number.
ModuleBad ==
    \/ application_level_id.k = "none"
    \/ /\ application_level_id.k = "str"
       /\ \E i \in DOMAIN application_level_id.s : application_level_id.s[i] \notin Digits

ConfigBad == api # "" /\ (FieldMissing \/ ModuleBad)

ConfigError(outcome) ==
    outcome.kind = "err" /\ outcome.err \in {"ValueError", "RuntimeError"}

\* C8 as stated: from either entry point a configuration error and an ambiguous
\* match reach the caller as an error, and never as an absent / None result.
C8_AlwaysPropagate ==
    pc = "done" =>
        /\ api = "one" =>
              /\ ConfigBad => ret.kind = "err"
              /\ (Searched /\ Len(ids) >= 2) => ret.kind = "amb"
        /\ api = "bulk" =>
              /\ (\E i \in Processed : ConfigError(outcomes[i])) => ret.kind = "err"
              /\ AmbiguousAt # {} => ret.kind = "amb"

\* C8 amended: get_record_id_by_field raises a configuration error and an
\* ambiguous match to its caller; get_record_ids_by_field_bulk raises an
\* ambiguous match (the aggregate, after the loop) but turns the configuration
\* error of a value's lookup into None for that value: with no ambiguous value
\* it returns the mapping and raises nothing.
C8_PropagationPolicy ==
    pc = "done" =>
        /\ api = "one" =>
              /\ ConfigBad => ret.kind = "err"
              /\ (Searched /\ Len(ids) >= 2) => ret.kind = "amb"
        /\ api = "bulk" =>
              /\ AmbiguousAt # {} => ret.kind = "amb"
              /\ \A i \in Processed : ConfigBad => outcomes[i].kind = "err"
              /\ (AmbiguousAt = {}) =>
                    /\ ret.kind = "map"
                    /\ \A i \in Processed :
                          ConfigError(outcomes[i]) => ret.map[values[i]] = None

\* C8 witness: a bulk lookup of two values under a module id that is no number
\* returned normally with None for a value whose lookup raised RuntimeError.
C8_Witness ==
    /\ BulkDone /\ ModuleBad /\ Len(values) = 2
    /\ outcomes[2] = Raised("RuntimeError")
    /\ ret.kind = "map" /\ ret.map[values[2]] = None

\* C9: a lookup whose field does not resolve or whose module id is no number
\* raises (it never returns absent), having called nothing but the metadata
\* load: not the values-list collaborator, not the probe, no search, no
\* directory request, no query.
C9_ConfigErrorBeforeCalls ==
    ConfigBad =>
        /\ \A i \in DOMAIN calls : calls[i].op = "load"
        /\ pc \notin {"token", "probe", "rest", "dir", "query"}
        /\ Finished =>
              /\ Outcome.kind = "err"
              /\ Outcome.err \in {"LoadError", IF FieldMissing THEN "ValueError" ELSE "RuntimeError"}

\* C9 witness: a single lookup of an unknown field raised ValueError after the
\* metadata load alone.
C9_Witness ==
    /\ api = "one" /\ pc = "done" /\ FieldMissing
    /\ ret.one = Raised("ValueError")
    /\ Ops = << "load" >>

\* C10: a lookup in which the primary search, the directory request or the
\* filtered query failed or answered a status >= 400 returns absent: no id, no
\* AmbiguousMatch, no other exception.
C10_TransportErrorsAbsent ==
    (Finished /\ \E i \in DOMAIN calls :
                     calls[i].op \in {"rest", "dir", "query"} /\ calls[i].bad)
        => Outcome = Absent

\* ---- the probe, the field resolution

\* In run 1, the answer the running lookup got to its call op: the answers of
\* the lookup are the last Len(calls) of the script, in the order of its calls.
Replied(op) ==
    script[Len(script) - Len(calls) + (CHOOSE i \in DOMAIN calls : calls[i].op = op)]

\* C11: the probe reports unsupported exactly when its request failed or it
\* answered 404 or 405, whatever the body of the answer; after any other status
\* (401, 403, 5xx included) the lookup runs the primary search and never asks the
\* directory or the query endpoint, and after a failure, 404 or 405 it never
\* runs the primary search.
C11_ProbeDecides ==
    (run = 1 /\ HasOp("probe")) =>
        LET resp == Replied("probe")
            refused == resp.fail \/ resp.status = 404 \/ resp.status = 405
        IN /\ refused =>
                 /\ ~HasOp("rest") /\ pc # "rest"
                 /\ pc = "dir" \/ HasOp("dir")
           /\ ~refused =>
                 /\ ~HasOp("dir") /\ ~HasOp("query") /\ pc \notin {"dir", "query"}
                 /\ pc = "rest" \/ HasOp("rest")

\* C11 witness: the probe answered 500 with a body that is no object, and the
\* lookup returned the id the primary search found, with no fallback call.
C11_Witness ==
    /\ run = 1 /\ api = "one" /\ pc = "done"
    /\ HasOp("probe") /\ Replied("probe") = Response(500, ScalarBody)
    /\ LastOps(2) = << "probe", "rest" >>
    /\ ret.one = Found(1)

\* Two characters that are the same letter.
SameLetter(c, d) ==
    \/ c = d
    \/ {c, d} \in { {"t", "T"}, {"n", "N"}, {"s", "S"}, {"z", "Z"} }

SameIgnoringCase(a, b) ==
    Len(a) = Len(b) /\ \A i \in DOMAIN a : SameLetter(a[i], b[i])

\* The items of the metadata whose DisplayName key is the call's name ignoring case.
Matching ==
    { i \in DOMAIN af :
        af[i].kind = "name" /\ SameIgnoringCase(af[i].name, field_display_name) }

\* The running lookup loaded the metadata and has been through the resolution.
Resolved ==
    /\ calls # <<>> /\ ~calls[1].bad
    /\ pc \in {"token", "probe", "rest", "dir", "query", "ret"} \/ (api = "one" /\ pc = "done")

\* C12: when a DisplayName key equals the requested name ignoring case, the
\* resolution does not fail and the field id is one stored under such a key;
\* it fails with the field-not-found ValueError exactly when no DisplayName key
\* matches ignoring case (the int keys of the descriptors are not candidates).
C12_CaseInsensitiveResolve ==
    Resolved =>
        IF Matching = {}
        THEN Outcome = Raised("ValueError")
        ELSE /\ Outcome # Raised("ValueError")
             /\ field_id \in { af[i].fid : i \in Matching }

\* C12 witness: the metadata has "Tn", the caller asked for "tN", and the
\* lookup went on with the id stored under "Tn".
C12_Witness ==
    /\ Resolved /\ pc = "token"
    /\ af = TextMeta /\ field_display_name = << "t", "N" >>
    /\ field_id = 10

\* ---- the bulk lookup made twice

Contains(name, app) ==
    \E i \in 1..Len(name) : \E j \in i..Len(name) : SubSeq(name, i, j) = app

\* C14: from a listing it can read, discovery returns the path of the entry
\* named exactly as the application, wherever that entry stands (after entries
\* that only contain the name, too); with no such entry, the path of the first
\* entry in listing order whose name contains the application name; and nothing
\* when no entry matches.  It returns nothing as well when the request raised
\* or the listing cannot be read: a body that is no JSON object, or a member
\* that is no object met before the exact match was found.
C14_ExactThenFirstSubstring ==
    (run = 1 /\ HasOp("dir")) =>
        LET resp == Replied("dir")
            readable == ~resp.fail /\ resp.body.shape \in {"value", "empty"}
            es == resp.body.items
            exact == { i \in DOMAIN es : es[i].t = "entry" /\ es[i].name = app_name }
            subs == { i \in DOMAIN es : es[i].t = "entry" /\ Contains(es[i].name, app_name) }
            broken == { i \in DOMAIN es : es[i].t # "entry" }
        IN IF ~readable THEN endpoint = ""
           ELSE IF \E i \in exact : (\A j \in exact : i <= j) /\ (\A j \in broken : i < j)
           THEN \E i \in exact : (\A j \in exact : i <= j) /\ endpoint = es[i].url
           ELSE IF broken # {} THEN endpoint = ""
           ELSE IF subs # {}
           THEN \E i \in subs : (\A j \in subs : i <= j) /\ endpoint = es[i].url
           ELSE endpoint = ""

\* C14 witness: the listing has an entry that only contains the name, with the
\* path Other, before the entry named exactly, and discovery returned the path
\* of the second.
C14_Witness ==
    /\ run = 1 /\ api = "one" /\ HasOp("dir")
    /\ Replied("dir") =
          Response(200, ValueBody(<< Entry(<<"x", "A">>, "Other"), Entry(<<"A">>, "Endpoint") >>))
    /\ endpoint = "Endpoint"
    /\ pc = "query"

\* ---- the calls of one lookup

\* The network calls of the running lookup, in order.
IsRequest(c) == c.op \in {"probe", "rest", "dir", "query"}
Requests == [i \in DOMAIN SelectSeq(calls, IsRequest) |-> SelectSeq(calls, IsRequest)[i].op]

\* C15: the network calls of one lookup are, in order, the probe and one primary
\* search, or the probe, one directory request and at most one filtered query:
\* at most three requests, none of a kind twice, never a primary search together
\* with a fallback request; a lookup that ran the primary search ends with it,
\* whether the search found ids, found none or failed.
C15_TwoCallSequences ==
    /\ Requests \in { << >>, << "probe" >>, << "probe", "rest" >>,
                      << "probe", "dir" >>, << "probe", "dir", "query" >> }
    /\ HasOp("rest") => (Finished /\ Requests = << "probe", "rest" >>)
    /\ (Finished /\ HasOp("probe")) =>
          Requests \in { << "probe", "rest" >>, << "probe", "dir" >>,
                         << "probe", "dir", "query" >> }

\* C15 witness: the primary search failed and the lookup ended absent after the
\* probe and that one search.
C15_Witness ==
    /\ Finished /\ Requests = << "probe", "rest" >>
    /\ calls[Len(calls)].op = "rest" /\ calls[Len(calls)].bad
    /\ ids = << >> /\ Outcome = Absent

\* C16: when the probe reported unsupported and discovery found no endpoint
\* (no matching entry, or the directory request failed), the lookup returns
\* absent at once: the directory request is its last call and no filtered query
\* is made.
C16_NoEndpointNoQuery ==
    (HasOp("dir") /\ endpoint = "") =>
        /\ Finished
        /\ Outcome = Absent
        /\ ~HasOp("query")
        /\ LastOps(2) = << "probe", "dir" >>

\* C16 witness: the probe answered 405, the directory request failed, and the
\* single lookup returned absent after those two calls.
C16_Witness ==
    /\ api = "one" /\ pc = "done" /\ ProbeStatus({405})
    /\ LastOps(2) = << "probe", "dir" >> /\ calls[Len(calls)].bad
    /\ endpoint = "" /\ ret.one = Absent

\* ---- the ambiguity map against the id mapping

\* C17: at every point of the bulk loop, and when the aggregate AmbiguousMatch
\* is raised, every value that is a key of the ambiguity map has None for its
\* entry in the id mapping, repeated values and answers that differ between the
\* occurrences of a value included.
C17_AmbiguousKeysHoldNone ==
    api = "bulk" =>
        \A v \in DOMAIN ambiguities :
            v \in DOMAIN results /\ results[v] = None

\* ---- the metadata

\* The running lookup is past its from_application call.
Loaded == pc \in {"token", "probe", "rest", "dir", "query", "ret"} \/ (api = "one" /\ pc = "done")

\* C18: no step writes the field metadata or the module id; from_application is
\* asked once per lookup, as the lookup's first call and before the resolution:
\* once in a single lookup, and in a bulk lookup once for each value, the i-th
\* time before the i-th value's resolution, N times when the call ends; a
\* from_application that raises ends the single lookup with that same exception
\* and no other call.
C18_ReadOnlyReloadEachResolution ==
    /\ [][af' = af /\ application_level_id' = application_level_id]_vars
    /\ [](/\ (api # "" /\ pc = "resolve") => (loads = idx - 1 /\ calls = << >>)
          /\ (api # "" /\ Loaded) =>
                /\ loads = idx
                /\ calls # << >> /\ calls[1].op = "load"
                /\ \A i \in DOMAIN calls : calls[i].op = "load" => i = 1
          /\ (api = "one" /\ pc = "done") => loads = 1
          /\ (api = "bulk" /\ pc \in {"end", "done"}) => loads = Len(values)
          /\ (api = "one" /\ pc = "done" /\ calls[1].bad) =>
                (ret.one = Raised("LoadError") /\ Len(calls) = 1))

\* C18 witness: a bulk lookup of two values has ended after two loads, the
\* second of which failed.
C18_Witness ==
    /\ api = "bulk" /\ pc = "done" /\ Len(values) = 2
    /\ loads = 2
    /\ outcomes[2] = Raised("LoadError")

\* ---- parsing a search response

\* What the running search read from each item of the answer's array: for the
\* primary search by the shape of the body, for the query by the select field.
ItemsRead(op) ==
    LET body == Replied(op).body
    IN [i \in DOMAIN body.items |->
          IF op = "query" THEN contentapi_rid(endpoint, body.items[i])
          ELSE IF body.shape = "list" THEN rest_list_rid(body.items[i])
          ELSE rest_value_rid(body.items[i])]

\* An item carries an id; reading an item raises (it is no object where the code
\* calls .get on it, or its id is no number).
Identified(r) == r.ok /\ r.keep
ItemRaises(r) == ~r.ok \/ (r.keep /\ ~py_int(r.rid).ok)

\* The ids of all the identified items, in the order of the answer.
AllIds(reads) ==
    [i \in DOMAIN SelectSeq(reads, Identified) |->
        py_int(SelectSeq(reads, Identified)[i].rid).n]

\* The last call of the running lookup is a search answered with status < 400
\* and an array of items.
ParsedSearch(op) ==
    /\ run = 1 /\ calls # << >> /\ calls[Len(calls)].op = op
    /\ ~Replied(op).fail /\ Replied(op).status < 400
    /\ Replied(op).body.shape \in (IF op = "query" THEN {"value"} ELSE {"list", "value"})

\* C19: from an answer that holds an array of items, either search returns the
\* ids of all its identified items in the answer's order, or, when reading any
\* one item raises, no id at all: the ids read from the items before it are
\* dropped, and the lookup ends absent, neither found nor ambiguous.
C19_AllOrNothing ==
    \A op \in {"rest", "query"} :
        ParsedSearch(op) =>
            IF \E i \in DOMAIN ItemsRead(op) : ItemRaises(ItemsRead(op)[i])
            THEN ids = << >> /\ Outcome = Absent
            ELSE ids = AllIds(ItemsRead(op))

\* C19 witness: the primary search answered an array whose first item carries
\* the id 1 and whose second item is no object; the lookup returned absent.
C19_Witness ==
    /\ api = "one" /\ pc = "done" /\ ParsedSearch("rest")
    /\ Replied("rest").body = ListBody(<< RoItem(IntVal(1)), ScalarItem >>)
    /\ ids = << >> /\ ret.one = Absent

====
